---------------------------- MODULE Spec2Model ----------------------------
(***************************************************************************)
(* A model of src/commands.ts (class Commands of vscode-gist): the         *)
(* identity codec that maps a working-copy path to (storageBlockId,        *)
(* fileName), and the command handlers that synchronise a local working    *)
(* copy with the remote storage provider.                                  *)
(*                                                                         *)
(* Strings are sequences of one-character strings, so that the regular     *)
(* expression of _getCodeFileDetails, path.join and the file-name          *)
(* arithmetic of addToCodeBlock are computed character by character.       *)
(* Paths are POSIX paths (path.sep = "/").                                 *)
(***************************************************************************)
EXTENDS Integers, Sequences, FiniteSets, TLC

(***************************************************************************)
(* Bounds of the model.                                                    *)
(***************************************************************************)
\* pieces concatenated into a block id of the codec specification
MaxIdPieces == 2
\* pieces concatenated into a file name of the codec specification
MaxNamePieces == 2
\* characters of the random suffix tmp.dirSync appends to the prefix
MaxJunkLen == 1

(***************************************************************************)
(* Strings.                                                                *)
(***************************************************************************)
\* path.sep on a POSIX host
Sep == "/"

\* the options.prefix default of _createTmpDir, 'vscode_gist_'
Prefix == <<"v", "s", "c", "o", "d", "e", "_", "g", "i", "s", "t", "_">>

\* JavaScript's undefined, where an object, a character string or a key is
\* expected
Undefined == [undefined |-> TRUE]
NoString == <<"undefined">>
NoKey == "undefined"

\* s has t at index i
HasAt(s, i, t) ==
  /\ i >= 1
  /\ i + Len(t) - 1 <= Len(s)
  /\ \A k \in 1..Len(t) : s[i + k - 1] = t[k]

\* the first index >= i of s holding character c, 0 when there is none
IndexFrom(s, i, c) ==
  IF \E k \in i..Len(s) : s[k] = c
  THEN CHOOSE k \in i..Len(s) : s[k] = c /\ \A j \in i..(k - 1) : s[j] # c
  ELSE 0

\* String.prototype.lastIndexOf(c): 1-based here, 0 for JavaScript's -1
LastIndexOf(s, c) ==
  IF \E k \in 1..Len(s) : s[k] = c
  THEN CHOOSE k \in 1..Len(s) : s[k] = c /\ \A j \in (k + 1)..Len(s) : s[j] # c
  ELSE 0

\* what the regular expression's . matches: anything but a line terminator
Dot(c) == c \notin {"\n", "\r"}

\* the last index of the longest run of . characters of s starting at i
\* (i - 1 when the run is empty)
DotRunEnd(s, i) ==
  IF \E k \in i..Len(s) : ~Dot(s[k])
  THEN (CHOOSE k \in i..Len(s) : ~Dot(s[k]) /\ \A j \in i..(k - 1) : Dot(s[j])) - 1
  ELSE Len(s)

\* the concatenations of at most n members of pieces
RECURSIVE Concats(_, _)
Concats(pieces, n) ==
  IF n = 0 THEN {<<>>}
  ELSE LET shorter == Concats(pieces, n - 1)
       IN shorter \cup {s \o p : s \in shorter, p \in pieces}

(***************************************************************************)
(* Node's path module, POSIX flavour.                                      *)
(***************************************************************************)
\* the segments of s between separators, in order
RECURSIVE Segments(_)
Segments(s) ==
  LET k == IndexFrom(s, 1, Sep)
  IN IF k = 0 THEN <<s>>
     ELSE <<SubSeq(s, 1, k - 1)>> \o Segments(SubSeq(s, k + 1, Len(s)))

DotDot == <<".", ".">>

\* normalizeString: drops "" and ".", resolves ".." against the segments kept
RECURSIVE NormalizeSegments(_, _, _)
NormalizeSegments(segs, kept, allowAboveRoot) ==
  IF segs = <<>> THEN kept
  ELSE LET seg == Head(segs)
           rest == Tail(segs)
       IN IF seg = <<>> \/ seg = <<".">>
          THEN NormalizeSegments(rest, kept, allowAboveRoot)
          ELSE IF seg = DotDot
          THEN IF kept # <<>> /\ kept[Len(kept)] # DotDot
               THEN NormalizeSegments(rest, SubSeq(kept, 1, Len(kept) - 1), allowAboveRoot)
               ELSE IF allowAboveRoot
               THEN NormalizeSegments(rest, Append(kept, seg), allowAboveRoot)
               ELSE NormalizeSegments(rest, kept, allowAboveRoot)
          ELSE NormalizeSegments(rest, Append(kept, seg), allowAboveRoot)

RECURSIVE JoinSegments(_)
JoinSegments(segs) ==
  IF segs = <<>> THEN <<>>
  ELSE IF Len(segs) = 1 THEN segs[1]
  ELSE segs[1] \o <<Sep>> \o JoinSegments(Tail(segs))

\* path.normalize
PathNormalize(p) ==
  IF p = <<>> THEN <<".">>
  ELSE LET isAbsolute == p[1] = Sep
           trailingSep == p[Len(p)] = Sep
           body == JoinSegments(NormalizeSegments(Segments(p), <<>>, ~isAbsolute))
           dotted == IF body = <<>> /\ ~isAbsolute THEN <<".">> ELSE body
           tailed == IF dotted # <<>> /\ trailingSep THEN dotted \o <<Sep>> ELSE dotted
       IN IF isAbsolute THEN <<Sep>> \o tailed ELSE tailed

\* path.join(a, b): zero-length arguments are skipped, the rest normalised
PathJoin(a, b) ==
  IF a = <<>> /\ b = <<>> THEN <<".">>
  ELSE IF a = <<>> THEN PathNormalize(b)
  ELSE IF b = <<>> THEN PathNormalize(a)
  ELSE PathNormalize(a \o <<Sep>> \o b)

\* the index of the last character of p that is not a trailing separator
RECURSIVE StripEnd(_, _)
StripEnd(p, e) == IF e > 1 /\ p[e] = Sep THEN StripEnd(p, e - 1) ELSE e

\* path.dirname: scanning backwards, the text before the first separator
\* met after a non-separator character (the character at index 1 is not
\* scanned)
PathDirname(p) ==
  IF p = <<>> THEN <<".">>
  ELSE LET hasRoot == p[1] = Sep
           e == StripEnd(p, Len(p))
           cut == LastIndexOf(SubSeq(p, 1, e), Sep)
       IN IF cut <= 1 \/ p[e] = Sep THEN (IF hasRoot THEN <<Sep>> ELSE <<".">>)
          ELSE IF hasRoot /\ cut = 2 THEN <<Sep, Sep>>
          ELSE SubSeq(p, 1, cut - 1)

\* path.basename (no extension argument)
PathBasename(p) ==
  IF p = <<>> THEN <<>>
  ELSE LET e == StripEnd(p, Len(p))
           head == SubSeq(p, 1, e)
           cut == LastIndexOf(head, Sep)
       IN IF head = <<Sep>> THEN <<>> ELSE SubSeq(head, cut + 1, e)

(***************************************************************************)
(* The identity codec.                                                     *)
(***************************************************************************)
\* os.tmpdir(), the directory tmp.dirSync creates its directories in
TmpRoot == <<Sep, "t">>

\* the characters tmp draws the suffix of a name from (process.pid and
\* twelve random characters of [0-9A-Za-z])
JunkChars == {"7", "x"}

\* the suffixes tmp.dirSync may append to a prefix
Junks == Concats({<<c>> : c \in JunkChars}, MaxJunkLen) \ {<<>>}

\* tmp.dirSync({ prefix }).name for the suffix junk that tmp draws:
\* path.join(tmpDir, prefix + pid + random)
TmpName(prefix, junk) == PathJoin(TmpRoot, prefix \o junk)

\* _createTmpDir(key) with the default options: the name of the directory,
\* for the suffix junk that tmp draws
_createTmpDir(key, junk) ==
  LET prefix == Prefix \o key \o <<"_">>
  IN TmpName(prefix, junk)

\* a tail whose first group runs to the last underscore of the directory
\* name: (.*)_[^_/]*/(.*)
RegexTailToLastUnderscore(s, q) ==
  LET v == IndexFrom(s, q, Sep)
      u == IF v = 0 THEN 0 ELSE LastIndexOf(SubSeq(s, 1, v - 1), "_")
  IN IF v = 0 \/ u < q THEN Undefined
     ELSE [group1 |-> SubSeq(s, q, u - 1),
           group2 |-> SubSeq(s, v + 1, DotRunEnd(s, v + 1)),
           end |-> DotRunEnd(s, v + 1)]

\* the rest of the regular expression after the literal vscode_gist_,
\* matched at index q of s: ([^_]*)_[^/]*/(.*)
\* [^_]* cannot cross an underscore and must be followed by one, so group 1
\* ends at the first underscore; likewise [^/]* ends at the first separator;
\* the greedy (.*) takes every character up to a line terminator.
RegexTail(s, q) ==
  LET u == IndexFrom(s, q, "_")
      v == IF u = 0 THEN 0 ELSE IndexFrom(s, u + 1, Sep)
  IN IF u = 0 \/ v = 0 THEN Undefined
     ELSE [group1 |-> SubSeq(s, q, u - 1),
           group2 |-> SubSeq(s, v + 1, DotRunEnd(s, v + 1)),
           end |-> DotRunEnd(s, v + 1)]

\* the indexes at which the literal can be placed: it is there and the rest
\* of the expression matches after it
LiteralPlaces(s) ==
  {p \in 1..Len(s) : HasAt(s, p, Prefix) /\ RegexTail(s, p + Len(Prefix)) # Undefined}

\* the leftmost index a match that places the literal at p can start at:
\* the leading .* reaches back from p to the last line terminator
LeftmostStart(s, p) ==
  IF \E j \in 1..(p - 1) : ~Dot(s[j])
  THEN (CHOOSE j \in 1..(p - 1) : ~Dot(s[j]) /\ \A k \in (j + 1)..(p - 1) : Dot(s[k])) + 1
  ELSE 1

\* String.prototype.match with the regular expression of line 218: the
\* match at the leftmost start; there the greedy .* gives way as little as
\* it must, so the literal is placed as far right as a match allows
RegexMatch(s) ==
  LET places == LiteralPlaces(s)
  IN IF places = {} THEN Undefined
     ELSE LET first == CHOOSE x \in places : \A o \in places : x <= o
              start == LeftmostStart(s, first)
              reach == {x \in places : LeftmostStart(s, x) = start}
              p == CHOOSE x \in reach : \A o \in reach : o <= x
              tail == RegexTail(s, p + Len(Prefix))
          IN [match0 |-> SubSeq(s, start, tail.end),
              group1 |-> tail.group1,
              group2 |-> tail.group2]

\* a decoding that keeps only the last segment of the file name
GetCodeFileDetailsOfBaseName(doc) ==
  LET matches == RegexMatch(doc.fileName)
  IN IF matches # Undefined
     THEN [path |-> PathDirname(matches.match0),
           storageBlockId |-> matches.group1,
           fileName |-> PathBasename(matches.group2)]
     ELSE Undefined

\* _getCodeFileDetails(doc): the identity decoded from doc.fileName, or
\* undefined
_getCodeFileDetails(doc) ==
  LET matches == RegexMatch(doc.fileName)
  IN IF matches # Undefined
     THEN [path |-> PathDirname(matches.match0),
           storageBlockId |-> matches.group1,
           fileName |-> matches.group2]
     ELSE Undefined

(***************************************************************************)
(* The state of the program and of its two collaborators, the host editor  *)
(* and the storage provider.                                               *)
(***************************************************************************)
VARIABLES
  \* the input and the result of a pure function under check
  call, ret,
  \* Commands: this._provider (the key of the resolved service, or
  \* NoKey), this._store's 'providerKey' entry, the keys of
  \* this._codeFileServices, and where the constructor's _init() stands
  _provider, _store, _codeFileServices, initPc,
  \* the provider: whether it is logged in, and its blocks (id -> block)
  authenticated, remote,
  \* the host: the editor groups with their tabs, the focused group, the
  \* workbench commands sent and not yet executed, the directories and the
  \* files of the local file system
  groups, activeGroup, hostQueue, dirs, files,
  \* the handlers in flight, one per slot, and the number of events the
  \* host has dispatched
  handlers, dispatched

pureVars == <<call, ret>>
initVars == <<_provider, _store, _codeFileServices, initPc>>
providerVars == <<authenticated, remote>>
hostVars == <<groups, activeGroup, hostQueue, dirs, files>>
handlerVars == <<handlers, dispatched>>
vars == <<pureVars, initVars, providerVars, hostVars, handlerVars>>

\* the events the host dispatches in one run of the model
MaxEvents == 2

\* the slots a handler can run in: an async handler is suspended at each
\* await, and the host may dispatch the next event meanwhile
Slots == {"h1", "h2"}

\* document texts
Texts == {"t0", "t1"}

\* the name of the one provider whose state is modelled
ProviderKey == "gist"
\* a second registered service, never selected
OtherKey == "other"

(***************************************************************************)
(* The host editor: groups of tabs.  Each tab is the path of its document; *)
(* a group shows its active tab.  Tabs are opened pinned.                  *)
(***************************************************************************)
EmptyGroup == [tabs |-> <<>>, active |-> 0]

\* the path shown by group g, NoString for an empty group
ShownIn(g) == IF g.tabs = <<>> THEN NoString ELSE g.tabs[g.active]

\* window.activeTextEditor of the editor layout gs focused on group ag
ActiveTextEditor(gs, ag) ==
  IF ShownIn(gs[ag]) = NoString THEN Undefined
  ELSE [document |-> [fileName |-> ShownIn(gs[ag])]]

\* window.visibleTextEditors: one editor per non-empty group
RECURSIVE VisibleOf(_)
VisibleOf(gs) ==
  IF gs = <<>> THEN <<>>
  ELSE (IF ShownIn(Head(gs)) = NoString THEN <<>>
        ELSE <<[document |-> [fileName |-> ShownIn(Head(gs))]]>>) \o VisibleOf(Tail(gs))

\* every tab of every group: <<group index, tab index>>
TabsOf(gs) == UNION {{<<g, t>> : t \in 1..Len(gs[g].tabs)} : g \in 1..Len(gs)}

\* the paths that have a tab
OpenPaths(gs) == {gs[x[1]].tabs[x[2]] : x \in TabsOf(gs)}

\* workbench.action.closeOtherEditors: closes the other tabs of the focused
\* group and keeps its active one
CloseOtherEditors(gs, ag) ==
  IF gs[ag].tabs = <<>> THEN gs
  ELSE [gs EXCEPT ![ag] = [tabs |-> <<ShownIn(gs[ag])>>, active |-> 1]]

\* workbench.action.splitEditor: a new group beside the focused one, holding
\* a copy of its active tab; the new group takes the focus
SplitEditor(gs, ag) ==
  LET copy == IF gs[ag].tabs = <<>> THEN EmptyGroup
              ELSE [tabs |-> <<ShownIn(gs[ag])>>, active |-> 1]
  IN SubSeq(gs, 1, ag) \o <<copy>> \o SubSeq(gs, ag + 1, Len(gs))

\* window.showTextDocument(doc): in the focused group, the tab of the
\* document if it has one there, else a new tab right of the active one
ShowTextDocument(gs, ag, path) ==
  LET g == gs[ag]
  IN IF \E t \in 1..Len(g.tabs) : g.tabs[t] = path
     THEN [gs EXCEPT ![ag].active = CHOOSE t \in 1..Len(g.tabs) : g.tabs[t] = path]
     ELSE [gs EXCEPT ![ag] =
             [tabs |-> SubSeq(g.tabs, 1, g.active) \o <<path>>
                         \o SubSeq(g.tabs, g.active + 1, Len(g.tabs)),
              active |-> g.active + 1]]

(***************************************************************************)
(* The storage provider, by its contract: blocks are kept by id; a block   *)
(* is the sequence of its files in the iteration order of its file         *)
(* mapping, each a name with a content.                                    *)
(***************************************************************************)
\* the provider knows a block of this id
Known(rem, id) == id \in DOMAIN rem /\ rem[id] # Undefined

\* the keys of a file mapping
Keys(fs) == {fs[k].name : k \in 1..Len(fs)}

\* list(favorite): the summaries of the blocks, in a fixed order
RECURSIVE SummariesOf(_, _)
SummariesOf(rem, ids) ==
  IF ids = {} THEN <<>>
  ELSE LET id == CHOOSE x \in ids : \A y \in ids : Len(x) <= Len(y)
       IN (IF rem[id] = Undefined THEN <<>> ELSE <<[id |-> id, url |-> id]>>)
          \o SummariesOf(rem, ids \ {id})

ProviderList(rem) == SummariesOf(rem, DOMAIN rem)

\* getStorageBlock(url): the block as it is now
ProviderGetStorageBlock(rem, url) == [id |-> url, files |-> rem[url].files]

\* editFile(blockId, fileName, content): replaces the content of the file,
\* or adds the file at the end of the mapping
ProviderEditFile(rem, id, name, content) ==
  LET fs == rem[id].files
  IN IF name \in Keys(fs)
     THEN [rem EXCEPT ![id].files =
             [k \in 1..Len(fs) |->
                IF fs[k].name = name THEN [name |-> name, content |-> content] ELSE fs[k]]]
     ELSE [rem EXCEPT ![id].files = Append(fs, [name |-> name, content |-> content])]

(***************************************************************************)
(* Handlers.  A handler is an async function: it runs from one await to    *)
(* the next without interruption, and is suspended at an await until the   *)
(* provider, the user or the host answers.  pc names the await a handler   *)
(* is suspended at.  calls, infos and errors record what the invocation    *)
(* has asked of the provider and shown to the user; result is "returned"   *)
(* when the handler's promise resolved and "rejected" when an error left   *)
(* the handler uncaught.                                                   *)
(***************************************************************************)
IdleHandler ==
  [cmd |-> "none", pc |-> "idle", result |-> "none",
   doc |-> Undefined, favorite |-> FALSE, username |-> NoKey,
   codeBlock |-> Undefined, directory |-> NoString, i |-> 0,
   fileName |-> NoString, text |-> NoKey, entryActive |-> NoString,
   listed |-> <<>>, entryProvider |-> NoKey, entryTabs |-> {},
   overwrote |-> FALSE, stale |-> FALSE, swept |-> {}, description |-> NoKey,
   calls |-> <<>>, prompts |-> <<>>, ops |-> <<>>, infos |-> <<>>, errors |-> <<>>]

\* a fresh invocation of command cmd; entryProvider and entryTabs keep
\* this._provider and the tabs of the window as they are on entry
Invocation(cmd) ==
  [IdleHandler EXCEPT !.cmd = cmd, !.result = "running",
                      !.entryProvider = _provider,
                      !.entryTabs = OpenPaths(groups),
                      !.entryActive = ShownIn(groups[activeGroup])]

\* the handler returns
Return(hr) == [hr EXCEPT !.pc = "idle", !.result = "returned"]

\* an error thrown where no try block encloses it
Reject(hr) == [hr EXCEPT !.pc = "idle", !.result = "rejected"]

\* _showError(error), called from a catch block: the message shown names
\* this._provider.name, which throws a TypeError when no provider is
\* resolved; thrown from the catch block, it leaves the handler uncaught
_showError(hr, error, prov) ==
  IF prov = NoKey THEN Reject(hr)
  ELSE Return([hr EXCEPT !.errors = Append(@, error)])

\* _notify(message): this._provider.name is read first
_notify(hr, message) == [hr EXCEPT !.infos = Append(@, message)]

\* a call of the provider is recorded when it is made
Calling(hr, op, args) == [hr EXCEPT !.calls = Append(@, [op |-> op, args |-> args])]

\* a prompt or a quick pick is recorded when it is shown
Prompting(hr, prompt) == [hr EXCEPT !.prompts = Append(@, prompt)]

\* a call on the host (a workbench command, a file written, a document
\* opened or shown) is recorded when it is made
Doing(hr, op, arg) == [hr EXCEPT !.ops = Append(@, [op |-> op, arg |-> arg])]

\* the arguments of the last provider call of a handler
LastArgs(hr) == hr.calls[Len(hr.calls)].args

\* the host dispatches an event to a free slot
CanDispatch(s) == handlers[s].pc = "idle" /\ dispatched < MaxEvents

(***************************************************************************)
(* The constructor's _init(), which is not awaited.                        *)
(***************************************************************************)
\* this._codeFileServices[providerKey]
ServiceOf(key) == IF key \in _codeFileServices THEN key ELSE NoKey

\* _init resumes from store.get: with a stored key, or with exactly one
\* registered service, _setProvider starts and awaits store.update;
\* otherwise _init ends and this._provider stays undefined
_init ==
  /\ initPc = "get"
  /\ IF _store # NoKey
     THEN initPc' = "update" /\ UNCHANGED _store
     ELSE IF Cardinality(_codeFileServices) = 1
     THEN /\ initPc' = "update"
          /\ _store' = CHOOSE k \in _codeFileServices : TRUE
     ELSE initPc' = "done" /\ UNCHANGED _store
  /\ UNCHANGED <<pureVars, _provider, _codeFileServices, providerVars, hostVars, handlerVars>>

\* _setProvider resumes from store.update and sets this._provider
_setProvider ==
  /\ initPc = "update"
  /\ _provider' = ServiceOf(_store)
  /\ initPc' = "done"
  /\ UNCHANGED <<pureVars, _store, _codeFileServices, providerVars, hostVars, handlerVars>>

(***************************************************************************)
(* onSaveTextDocument(doc)                                                 *)
(***************************************************************************)
\* the documents the host can raise a save event for: those with a tab
SavableDocs == {[fileName |-> p, text |-> t] : p \in OpenPaths(groups), t \in Texts}

\* the call with the text the document had when it was opened
editFileFirstText(hr, details, doc) ==
  Calling(hr, "editFile", <<details.storageBlockId, details.fileName, "t0">>)

\* line 192: this._provider.editFile(storageBlockId, fileName, doc.getText())
editFile(hr, details, doc) ==
  Calling(hr, "editFile", <<details.storageBlockId, details.fileName, doc.text>>)

\* the handler up to its first await.  The destructuring of line 189 is
\* outside the try block: it throws when the path does not decode.
onSaveTextDocument(s, doc) ==
  /\ CanDispatch(s)
  /\ doc \in SavableDocs
  /\ dispatched' = dispatched + 1
  /\ LET hr == [Invocation("onSaveTextDocument") EXCEPT !.doc = doc]
         details == _getCodeFileDetails(doc)
     IN handlers' = [handlers EXCEPT ![s] =
          IF details = Undefined THEN Reject(hr)
          ELSE IF details.storageBlockId = <<>> THEN Return(hr)
          ELSE IF _provider = NoKey THEN _showError(hr, "TypeError", _provider)
          ELSE [editFile(hr, details, doc) EXCEPT !.pc = "save_editFile"]]
  /\ UNCHANGED <<pureVars, initVars, providerVars, hostVars>>

\* editFile takes effect and the handler resumes: the notification is shown
\* and awaited
onSave_editFile_ok(s) ==
  /\ handlers[s].pc = "save_editFile"
  /\ LET args == LastArgs(handlers[s])
     IN /\ Known(remote, args[1])
        /\ remote' = ProviderEditFile(remote, args[1], args[2], args[3])
  /\ handlers' = [handlers EXCEPT ![s] =
        [_notify(@, "File Saved To Block") EXCEPT !.pc = "save_notify"]]
  /\ UNCHANGED <<pureVars, initVars, authenticated, hostVars, dispatched>>

\* editFile fails (the block is unknown, or the call does not get through)
onSave_editFile_fail(s) ==
  /\ handlers[s].pc = "save_editFile"
  /\ handlers' = [handlers EXCEPT ![s] = _showError(@, "ProviderError", _provider)]
  /\ UNCHANGED <<pureVars, initVars, providerVars, hostVars, dispatched>>

\* the user dismisses the notification and the handler returns
onSave_notified(s) ==
  /\ handlers[s].pc = "save_notify"
  /\ handlers' = [handlers EXCEPT ![s] = Return(@)]
  /\ UNCHANGED <<pureVars, initVars, providerVars, hostVars, dispatched>>

(***************************************************************************)
(* _selectCodeBlock and _loginUser, shared by openCodeBlock and            *)
(* addToCodeBlock.                                                         *)
(***************************************************************************)
\* what the user may type into an input box; NoKey is a cancelled box
Answers == {"u", NoKey}

\* _selectCodeBlock up to its first await, inside the caller's try block:
\* _loginUser reads this._provider.name, then either returns (the provider
\* is authenticated) and list is called, or prompts for the user name
_selectCodeBlock(hr) ==
  IF _provider = NoKey THEN _showError(hr, "TypeError", _provider)
  ELSE IF authenticated
  THEN [Calling(hr, "list", <<hr.favorite>>) EXCEPT !.pc = "list"]
  ELSE [Prompting(hr, "username") EXCEPT !.pc = "username"]

\* a user name box that answers only while no other handler has its user
\* name box open
select_username_one_at_a_time(s, answer) ==
  /\ handlers[s].pc = "username"
  /\ \A t \in Slots \ {s} : handlers[t].pc # "username"
  /\ handlers' = [handlers EXCEPT ![s] =
        IF answer = NoKey THEN _showError(@, "TypeError", _provider)
        ELSE [Prompting(@, "password") EXCEPT !.username = answer, !.pc = "password"]]
  /\ UNCHANGED <<pureVars, initVars, providerVars, hostVars, dispatched>>

\* the user name box answers: a cancelled box makes .trim() throw
select_username(s, answer) ==
  /\ handlers[s].pc = "username"
  /\ handlers' = [handlers EXCEPT ![s] =
        IF answer = NoKey THEN _showError(@, "TypeError", _provider)
        ELSE [Prompting(@, "password") EXCEPT !.username = answer, !.pc = "password"]]
  /\ UNCHANGED <<pureVars, initVars, providerVars, hostVars, dispatched>>

\* the password box answers, and login is called
select_password(s, answer) ==
  /\ handlers[s].pc = "password"
  /\ handlers' = [handlers EXCEPT ![s] =
        IF answer = NoKey THEN _showError(@, "TypeError", _provider)
        ELSE [Calling(@, "login", <<handlers[s].username, answer>>) EXCEPT !.pc = "login"]]
  /\ UNCHANGED <<pureVars, initVars, providerVars, hostVars, dispatched>>

\* login succeeds; _selectCodeBlock goes on to list
select_login_ok(s) ==
  /\ handlers[s].pc = "login"
  /\ authenticated' = TRUE
  /\ handlers' = [handlers EXCEPT ![s] =
        [Calling(@, "list", <<handlers[s].favorite>>) EXCEPT !.pc = "list"]]
  /\ UNCHANGED <<pureVars, initVars, remote, hostVars, dispatched>>

\* a _loginUser that goes on to list after a rejected login
select_login_fail_then_list(s) ==
  /\ handlers[s].pc = "login"
  /\ handlers' = [handlers EXCEPT ![s] =
        [Calling(@, "list", <<handlers[s].favorite>>) EXCEPT !.pc = "list"]]
  /\ UNCHANGED <<pureVars, initVars, providerVars, hostVars, dispatched>>

\* login is rejected
select_login_fail(s) ==
  /\ handlers[s].pc = "login"
  /\ handlers' = [handlers EXCEPT ![s] = _showError(@, "AuthError", _provider)]
  /\ UNCHANGED <<pureVars, initVars, providerVars, hostVars, dispatched>>

\* list answers and the quick pick is shown
select_list_ok(s) ==
  /\ handlers[s].pc = "list"
  /\ handlers' = [handlers EXCEPT ![s] =
        [Prompting(@, "quickPick") EXCEPT !.listed = ProviderList(remote), !.pc = "pick"]]
  /\ UNCHANGED <<pureVars, initVars, providerVars, hostVars, dispatched>>

select_list_fail(s) ==
  /\ handlers[s].pc = "list"
  /\ handlers' = [handlers EXCEPT ![s] = _showError(@, "ProviderError", _provider)]
  /\ UNCHANGED <<pureVars, initVars, providerVars, hostVars, dispatched>>

\* the user picks the k-th block, and getStorageBlock is called
select_pick(s, k) ==
  /\ handlers[s].pc = "pick"
  /\ k \in 1..Len(handlers[s].listed)
  /\ handlers' = [handlers EXCEPT ![s] =
        [Calling(@, "getStorageBlock", <<handlers[s].listed[k].url>>)
           EXCEPT !.pc = "getStorageBlock"]]
  /\ UNCHANGED <<pureVars, initVars, providerVars, hostVars, dispatched>>

\* the user dismisses the quick pick: _selectCodeBlock returns undefined
\* and the command returns
select_cancel(s) ==
  /\ handlers[s].pc = "pick"
  /\ handlers' = [handlers EXCEPT ![s] = Return(@)]
  /\ UNCHANGED <<pureVars, initVars, providerVars, hostVars, dispatched>>

select_getStorageBlock_fail(s) ==
  /\ handlers[s].pc = "getStorageBlock"
  /\ handlers' = [handlers EXCEPT ![s] = _showError(@, "ProviderError", _provider)]
  /\ UNCHANGED <<pureVars, initVars, providerVars, hostVars, dispatched>>

(***************************************************************************)
(* addToCodeBlock                                                          *)
(***************************************************************************)
\* the decimal digits of a natural number, as the + of line 156 writes i
RECURSIVE NumberToString(_)
NumberToString(n) ==
  LET digit == <<"0", "1", "2", "3", "4", "5", "6", "7", "8", "9">>[(n % 10) + 1]
  IN IF n < 10 THEN <<digit>> ELSE NumberToString(n \div 10) \o <<digit>>

\* 'untitled.txt', the name used when path.basename gives the empty string
Untitled == <<"u", "n", "t", "i", "t", "l", "e", "d", ".", "t", "x", "t">>

\* the property whose own definition in a file mapping hides
\* Object.prototype.hasOwnProperty
HasOwnProperty == <<"h", "a", "s", "O", "w", "n", "P", "r", "o", "p", "e", "r", "t", "y">>

\* the value of an expression that throws a TypeError
Thrown == <<"TypeError">>

\* the while loop of lines 150-158, entered with fileName and i
RECURSIVE CollisionLoop(_, _, _, _)
CollisionLoop(keys, originalFileName, fileName, i) ==
  IF fileName \notin keys THEN fileName
  ELSE LET dot == LastIndexOf(originalFileName, ".")
           extPos == IF dot = 0 THEN Len(originalFileName) + 1 ELSE dot
           ext == SubSeq(originalFileName, extPos, Len(originalFileName))
           next == SubSeq(originalFileName, 1, extPos - 1) \o NumberToString(i) \o ext
       IN CollisionLoop(keys, originalFileName, next, i + 1)

\* lines 147-158: the name addToCodeBlock gives the new file.
\* codeBlock.files.hasOwnProperty is looked up on the mapping itself: when
\* the block has a file of that name, the property is the file's entry and
\* calling it throws.
ResolveFileName(codeBlockFiles, fileName) ==
  IF HasOwnProperty \in Keys(codeBlockFiles) THEN Thrown
  ELSE CollisionLoop(Keys(codeBlockFiles), fileName, fileName, 1)

\* the handler up to its first await: the focused editor's text and name,
\* then _selectCodeBlock
addToCodeBlock(s, text) ==
  /\ CanDispatch(s)
  /\ text \in Texts
  /\ dispatched' = dispatched + 1
  /\ LET hr == Invocation("addToCodeBlock")
         editor == ActiveTextEditor(groups, activeGroup)
     IN handlers' = [handlers EXCEPT ![s] =
          IF editor = Undefined
          THEN _showError(hr, "Open a file before adding", _provider)
          ELSE LET base == PathBasename(editor.document.fileName)
               IN _selectCodeBlock(
                    [hr EXCEPT !.text = text,
                               !.fileName = IF base = <<>> THEN Untitled ELSE base])]
  /\ UNCHANGED <<pureVars, initVars, providerVars, hostVars>>

\* getStorageBlock answers with the block as it is now; the name is
\* resolved against that copy and editFile is called
add_getStorageBlock_ok(s) ==
  /\ handlers[s].pc = "getStorageBlock"
  /\ handlers[s].cmd = "addToCodeBlock"
  /\ Known(remote, LastArgs(handlers[s])[1])
  /\ LET codeBlock == ProviderGetStorageBlock(remote, LastArgs(handlers[s])[1])
         fileName == ResolveFileName(codeBlock.files, handlers[s].fileName)
         hr == [handlers[s] EXCEPT !.codeBlock = codeBlock]
     IN handlers' = [handlers EXCEPT ![s] =
          IF fileName = Thrown THEN _showError(hr, "TypeError", _provider)
          ELSE [Calling(hr, "editFile", <<codeBlock.id, fileName, hr.text>>)
                  EXCEPT !.pc = "add_editFile"]]
  /\ UNCHANGED <<pureVars, initVars, providerVars, hostVars, dispatched>>

\* editFile takes effect and the handler resumes: the notification is shown
\* (not awaited) and the handler returns.  overwrote records that the name
\* was a key of the block at that moment, stale that the keys of the block
\* were no longer those of the copy the name was resolved against.
add_editFile_ok(s) ==
  /\ handlers[s].pc = "add_editFile"
  /\ LET args == LastArgs(handlers[s])
     IN /\ Known(remote, args[1])
        /\ remote' = ProviderEditFile(remote, args[1], args[2], args[3])
        /\ handlers' = [handlers EXCEPT ![s] =
             Return([_notify(@, "File Added To Block") EXCEPT
                       !.overwrote = args[2] \in Keys(remote[args[1]].files),
                       !.stale = Keys(remote[args[1]].files)
                                   # Keys(handlers[s].codeBlock.files)])]
  /\ UNCHANGED <<pureVars, initVars, authenticated, hostVars, dispatched>>

add_editFile_fail(s) ==
  /\ handlers[s].pc = "add_editFile"
  /\ handlers' = [handlers EXCEPT ![s] = _showError(@, "ProviderError", _provider)]
  /\ UNCHANGED <<pureVars, initVars, providerVars, hostVars, dispatched>>

(***************************************************************************)
(* openCodeBlock                                                           *)
(***************************************************************************)
\* a workbench command sent by the handler in slot s
Command(name, s, awaited) == [cmd |-> name, slot |-> s, awaited |-> awaited]

\* the command the handler in slot s awaits is the next the host executes
NextInQueue(name, s) ==
  hostQueue # <<>> /\ Head(hostQueue) = Command(name, s, TRUE)

\* fs.writeFileSync(file, content) succeeds: the path names no directory
\* and its parent directory exists
CanWrite(file) ==
  /\ file[Len(file)] # Sep
  /\ file \notin dirs
  /\ PathDirname(file) \in dirs

\* _openTextDocument(dir, filename, content) up to its await: the file is
\* written, and workspace.openTextDocument is called.  hr.i is the number
\* of the file in the iteration of codeBlock.files.  The result is the
\* handler, the command queue and the files of the file system afterwards.
_openTextDocument(hr, queue, written) ==
  LET filename == hr.codeBlock.files[hr.i].name
      file == PathJoin(hr.directory, filename)
  IN IF ~CanWrite(file)
     THEN [h |-> _showError(hr, "ENOENT", _provider), q |-> queue, f |-> written]
     ELSE [h |-> [Doing(Doing(hr, "writeFileSync", file), "openTextDocument", file)
                    EXCEPT !.pc = "open_openDoc"],
           q |-> queue,
           f |-> written \cup {file}]

\* lines 35-44 from the top of the for loop to the next await: for a file
\* after the first, workbench.action.focusFirstEditorGroup is sent
OpenLoop(s, hr, queue, written) ==
  IF hr.i = Len(hr.codeBlock.files)
  THEN [h |-> Return(hr), q |-> queue, f |-> written]
  ELSE IF hr.i + 1 > 1
  THEN [h |-> [Doing(hr, "focusFirstEditorGroup", NoString)
                 EXCEPT !.i = @ + 1, !.pc = "open_focus"],
        q |-> Append(queue, Command("focusFirstEditorGroup", s, TRUE)),
        f |-> written]
  ELSE _openTextDocument([hr EXCEPT !.i = @ + 1], queue, written)

\* the handler up to its first await: _selectCodeBlock(favorite)
openCodeBlock(s, favorite) ==
  /\ CanDispatch(s)
  /\ dispatched' = dispatched + 1
  /\ handlers' = [handlers EXCEPT ![s] =
        _selectCodeBlock([Invocation("openCodeBlock") EXCEPT !.favorite = favorite])]
  /\ UNCHANGED <<pureVars, initVars, providerVars, hostVars>>

\* getStorageBlock answers; _createTmpDir makes a directory of a name that
\* is not in use (mkdir fails when the parent of the name does not exist);
\* with an active text editor workbench.action.closeOtherEditors is sent,
\* without one the loop starts
open_getStorageBlock_ok(s) ==
  /\ handlers[s].pc = "getStorageBlock"
  /\ handlers[s].cmd = "openCodeBlock"
  /\ Known(remote, LastArgs(handlers[s])[1])
  /\ \E junk \in Junks :
       LET codeBlock == ProviderGetStorageBlock(remote, LastArgs(handlers[s])[1])
           directory == _createTmpDir(codeBlock.id, junk)
           hr == Doing([handlers[s] EXCEPT !.codeBlock = codeBlock,
                                           !.directory = directory],
                       "createTmpDir", directory)
           loop == OpenLoop(s, hr, hostQueue, files)
       IN /\ directory \notin dirs \cup files
          /\ IF PathDirname(directory) \notin dirs
             THEN /\ handlers' = [handlers EXCEPT ![s] =
                        _showError(handlers[s], "ENOENT", _provider)]
                  /\ UNCHANGED <<dirs, hostQueue, files>>
             ELSE IF ActiveTextEditor(groups, activeGroup) # Undefined
             THEN /\ dirs' = dirs \cup {directory}
                  /\ handlers' = [handlers EXCEPT ![s] =
                        [Doing(hr, "closeOtherEditors", NoString)
                           EXCEPT !.pc = "open_closeOthers"]]
                  /\ hostQueue' = Append(hostQueue, Command("closeOtherEditors", s, TRUE))
                  /\ UNCHANGED files
             ELSE /\ dirs' = dirs \cup {directory}
                  /\ handlers' = [handlers EXCEPT ![s] = loop.h]
                  /\ hostQueue' = loop.q
                  /\ files' = loop.f
  /\ UNCHANGED <<pureVars, initVars, providerVars, groups, activeGroup, dispatched>>

\* the host has closed the other editors; the loop starts
open_closeOthers(s) ==
  /\ handlers[s].pc = "open_closeOthers"
  /\ NextInQueue("closeOtherEditors", s)
  /\ groups' = CloseOtherEditors(groups, activeGroup)
  /\ LET loop == OpenLoop(s, handlers[s], Tail(hostQueue), files)
     IN /\ handlers' = [handlers EXCEPT ![s] = loop.h]
        /\ hostQueue' = loop.q
        /\ files' = loop.f
  /\ UNCHANGED <<pureVars, initVars, providerVars, activeGroup, dirs, dispatched>>

\* the host has focused the first group; workbench.action.splitEditor is
\* sent
open_focus(s) ==
  /\ handlers[s].pc = "open_focus"
  /\ NextInQueue("focusFirstEditorGroup", s)
  /\ activeGroup' = 1
  /\ hostQueue' = Append(Tail(hostQueue), Command("splitEditor", s, TRUE))
  /\ handlers' = [handlers EXCEPT ![s] =
        [Doing(@, "splitEditor", NoString) EXCEPT !.pc = "open_split"]]
  /\ UNCHANGED <<pureVars, initVars, providerVars, groups, dirs, files, dispatched>>

\* the host has split the editor; the file is written and opened
open_split(s) ==
  /\ handlers[s].pc = "open_split"
  /\ NextInQueue("splitEditor", s)
  /\ groups' = SplitEditor(groups, activeGroup)
  /\ activeGroup' = activeGroup + 1
  /\ LET next == _openTextDocument(handlers[s], Tail(hostQueue), files)
     IN /\ handlers' = [handlers EXCEPT ![s] = next.h]
        /\ hostQueue' = next.q
        /\ files' = next.f
  /\ UNCHANGED <<pureVars, initVars, providerVars, dirs, dispatched>>

\* workbench.openTextDocument answers with the document, and
\* window.showTextDocument(doc) is called
open_openDoc(s) ==
  /\ handlers[s].pc = "open_openDoc"
  /\ handlers' = [handlers EXCEPT ![s] =
        [Doing(@, "showTextDocument", @.ops[Len(@.ops)].arg) EXCEPT !.pc = "open_show"]]
  /\ UNCHANGED <<pureVars, initVars, providerVars, hostVars, dispatched>>

\* the editor of the document is shown; the loop goes on
open_show(s) ==
  /\ handlers[s].pc = "open_show"
  /\ LET file == handlers[s].ops[Len(handlers[s].ops)].arg
         loop == OpenLoop(s, Doing(handlers[s], "shown", file), hostQueue, files)
     IN /\ groups' = ShowTextDocument(groups, activeGroup, file)
        /\ handlers' = [handlers EXCEPT ![s] = loop.h]
        /\ hostQueue' = loop.q
        /\ files' = loop.f
  /\ UNCHANGED <<pureVars, initVars, providerVars, activeGroup, dirs, dispatched>>

(***************************************************************************)
(* deleteCodeBlock and removeFileFromCodeBlock                             *)
(***************************************************************************)
\* sequence q without its i-th member
RemoveAt(q, i) == SubSeq(q, 1, i - 1) \o SubSeq(q, i + 1, Len(q))

\* workbench.action.closeActiveEditor: the active tab of the focused group
\* is closed.  Which of the remaining tabs the group then shows, and which
\* group takes the focus when the group is left empty and removed, follows
\* from the order in which they were last used, which the layout does not
\* record: every remaining tab and every remaining group is an outcome.
CloseActiveEditor(gs, ag) ==
  LET rest == RemoveAt(gs[ag].tabs, gs[ag].active)
  IN IF gs[ag].tabs # <<>> /\ rest # <<>>
     THEN {[groups |-> [gs EXCEPT ![ag] = [tabs |-> rest, active |-> a]],
            activeGroup |-> ag] : a \in 1..Len(rest)}
     ELSE IF Len(gs) = 1
     THEN {[groups |-> <<EmptyGroup>>, activeGroup |-> 1]}
     ELSE {[groups |-> RemoveAt(gs, ag), activeGroup |-> g] : g \in 1..(Len(gs) - 1)}

\* the host executes a workbench command that no handler awaits
host_closeActiveEditor ==
  /\ hostQueue # <<>>
  /\ Head(hostQueue).cmd = "closeActiveEditor"
  /\ \E out \in CloseActiveEditor(groups, activeGroup) :
       /\ groups' = out.groups
       /\ activeGroup' = out.activeGroup
  /\ hostQueue' = Tail(hostQueue)
  /\ UNCHANGED <<pureVars, initVars, providerVars, dirs, files, handlerVars>>

\* deleteStorageBlock(id): the block is gone
ProviderDeleteStorageBlock(rem, id) == [rem EXCEPT ![id] = Undefined]

\* removeFileFromStorageBlock(id, name): the file is gone from the block
ProviderRemoveFile(rem, id, name) ==
  LET fs == rem[id].files
      keep == {k \in 1..Len(fs) : fs[k].name # name}
      Nth(n) == CHOOSE k \in keep : Cardinality({j \in keep : j <= k}) = n
  IN [rem EXCEPT ![id].files = [n \in 1..Cardinality(keep) |-> fs[Nth(n)]]]

\* _getCurrentDocument(): the identity of the active editor's document,
\* "No open documents" without an active editor, and "Not a code block"
\* when its path does not decode
_getCurrentDocument(gs, ag) ==
  LET Found(doc, details) ==
        IF details = Undefined THEN [error |-> "Not a code block"]
        ELSE [error |-> "none", details |-> details, doc |-> doc]
      Of(editor) ==
        IF editor = Undefined THEN [error |-> "No open documents"]
        ELSE Found(editor.document, _getCodeFileDetails(editor.document))
  IN Of(ActiveTextEditor(gs, ag))

\* a command that starts with _getCurrentDocument() and then awaits the
\* provider call op on the identity, with the file name among the
\* arguments or without it.  Without a resolved provider the call itself
\* throws a TypeError.
OnCurrentDocument(hr, op, pc, withFileName) ==
  LET With(current) ==
        IF current.error # "none" THEN _showError(hr, current.error, _provider)
        ELSE IF _provider = NoKey THEN _showError(hr, "TypeError", _provider)
        ELSE [Calling([hr EXCEPT !.doc = current.doc], op,
                      IF withFileName
                      THEN <<current.details.storageBlockId, current.details.fileName>>
                      ELSE <<current.details.storageBlockId>>)
                EXCEPT !.pc = pc]
  IN With(_getCurrentDocument(groups, activeGroup))

\* deleteCodeBlock up to its await
deleteCodeBlock(s) ==
  /\ CanDispatch(s)
  /\ dispatched' = dispatched + 1
  /\ handlers' = [handlers EXCEPT ![s] =
        OnCurrentDocument(Invocation("deleteCodeBlock"), "deleteStorageBlock",
                          "delete_deleteStorageBlock", FALSE)]
  /\ UNCHANGED <<pureVars, initVars, providerVars, hostVars>>

\* the visible editors, among editors, whose document decodes to block id
EditorsBoundTo(editors, id) ==
  LET Bound(d) == d # Undefined /\ d.storageBlockId = id
  IN {k \in 1..Len(editors) : Bound(_getCodeFileDetails(editors[k].document))}

\* n times the command name, sent by slot s and not awaited
RECURSIVE CommandTimes(_, _, _)
CommandTimes(name, s, n) ==
  IF n = 0 THEN <<>> ELSE <<Command(name, s, FALSE)>> \o CommandTimes(name, s, n - 1)

\* lines 96-106: for every one of the visible editors that is bound to the
\* block, workbench.action.closeActiveEditor is sent (not awaited); then
\* the notification is shown and the handler returns.  The result is the
\* handler and the commands sent.
Sweep(s, hr, editors) ==
  LET n == Cardinality(EditorsBoundTo(editors, LastArgs(hr)[1]))
  IN [h |-> Return(_notify([hr EXCEPT
               !.swept = {editors[k].document.fileName : k \in 1..Len(editors)},
               !.ops = @ \o [k \in 1..n |-> [op |-> "closeActiveEditor", arg |-> NoString]]],
               "Block Deleted")),
      q |-> CommandTimes("closeActiveEditor", s, n)]

\* deleteStorageBlock takes effect and the handler resumes with the sweep
\* of window.visibleTextEditors
delete_deleteStorageBlock_ok(s) ==
  /\ handlers[s].pc = "delete_deleteStorageBlock"
  /\ Known(remote, LastArgs(handlers[s])[1])
  /\ remote' = ProviderDeleteStorageBlock(remote, LastArgs(handlers[s])[1])
  /\ \E sweep \in {Sweep(s, handlers[s], VisibleOf(groups))} :
       /\ hostQueue' = hostQueue \o sweep.q
       /\ handlers' = [handlers EXCEPT ![s] = sweep.h]
  /\ UNCHANGED <<pureVars, initVars, authenticated, groups, activeGroup, dirs, files,
                 dispatched>>

\* deleteStorageBlock is rejected
delete_deleteStorageBlock_fail(s) ==
  /\ handlers[s].pc = "delete_deleteStorageBlock"
  /\ handlers' = [handlers EXCEPT ![s] = _showError(@, "ProviderError", _provider)]
  /\ UNCHANGED <<pureVars, initVars, providerVars, hostVars, dispatched>>

\* removeFileFromCodeBlock up to its await
removeFileFromCodeBlock(s) ==
  /\ CanDispatch(s)
  /\ dispatched' = dispatched + 1
  /\ handlers' = [handlers EXCEPT ![s] =
        OnCurrentDocument(Invocation("removeFileFromCodeBlock"),
                          "removeFileFromStorageBlock", "remove_removeFile", TRUE)]
  /\ UNCHANGED <<pureVars, initVars, providerVars, hostVars>>

\* removeFileFromStorageBlock takes effect and the handler resumes:
\* workbench.action.closeActiveEditor is sent (not awaited), the
\* notification is shown and the handler returns
remove_removeFile_ok(s) ==
  /\ handlers[s].pc = "remove_removeFile"
  /\ LET args == LastArgs(handlers[s])
     IN /\ Known(remote, args[1])
        /\ remote' = ProviderRemoveFile(remote, args[1], args[2])
  /\ hostQueue' = Append(hostQueue, Command("closeActiveEditor", s, FALSE))
  /\ handlers' = [handlers EXCEPT ![s] =
        Return(_notify(Doing(@, "closeActiveEditor", NoString), "File Removed From Block"))]
  /\ UNCHANGED <<pureVars, initVars, authenticated, groups, activeGroup, dirs, files,
                 dispatched>>

\* removeFileFromStorageBlock is rejected
remove_removeFile_fail(s) ==
  /\ handlers[s].pc = "remove_removeFile"
  /\ handlers' = [handlers EXCEPT ![s] = _showError(@, "ProviderError", _provider)]
  /\ UNCHANGED <<pureVars, initVars, providerVars, hostVars, dispatched>>

(***************************************************************************)
(* createCodeBlock                                                         *)
(***************************************************************************)
\* what the user may answer to 'Private? Y = Yes, N = No'
PrivateAnswers == {"y", "n", NoKey}

\* the ids the provider gives to new blocks
NewIds == {<<"n">>, <<"m">>}

\* createFile(fileName, description, text, isPrivate): a new block of one
\* file under the id newId
ProviderCreateFile(rem, newId, fileName, description, text) ==
  (newId :> [files |-> <<[name |-> fileName, content |-> text]>>,
             description |-> description]) @@ rem

\* createCodeBlock up to its first await: without an active editor it
\* throws, with one it asks for the description
createCodeBlock(s, text) ==
  /\ CanDispatch(s)
  /\ text \in Texts
  /\ dispatched' = dispatched + 1
  /\ LET hr == Invocation("createCodeBlock")
         Named(base) == IF base = <<>> THEN Untitled ELSE base
         With(editor) ==
           IF editor = Undefined
           THEN _showError(hr, "Open a file before creating", _provider)
           ELSE [Prompting([hr EXCEPT !.text = text,
                                      !.fileName = Named(PathBasename(editor.document.fileName))],
                           "Enter description")
                   EXCEPT !.pc = "create_description"]
     IN handlers' = [handlers EXCEPT ![s] = With(ActiveTextEditor(groups, activeGroup))]
  /\ UNCHANGED <<pureVars, initVars, providerVars, hostVars>>

\* the description box answers (a cancelled box gives undefined), and the
\* second box is shown
create_description(s, answer) ==
  /\ handlers[s].pc = "create_description"
  /\ handlers' = [handlers EXCEPT ![s] =
        [Prompting(@, "Private? Y = Yes, N = No")
           EXCEPT !.description = answer, !.pc = "create_private"]]
  /\ UNCHANGED <<pureVars, initVars, providerVars, hostVars, dispatched>>

\* the second box answers: a cancelled box makes .substr throw; otherwise
\* createFile is called, which throws without a resolved provider
create_private(s, answer) ==
  /\ handlers[s].pc = "create_private"
  /\ handlers' = [handlers EXCEPT ![s] =
        IF answer = NoKey \/ _provider = NoKey THEN _showError(@, "TypeError", _provider)
        ELSE [Calling(@, "createFile",
                      <<handlers[s].fileName, handlers[s].description,
                        handlers[s].text, answer = "y">>)
                EXCEPT !.pc = "create_createFile"]]
  /\ UNCHANGED <<pureVars, initVars, providerVars, hostVars, dispatched>>

\* createFile takes effect and the handler resumes: the block's page is
\* opened in the browser and the handler returns
create_createFile_ok(s, newId) ==
  /\ handlers[s].pc = "create_createFile"
  /\ newId \notin DOMAIN remote
  /\ LET args == LastArgs(handlers[s])
     IN remote' = ProviderCreateFile(remote, newId, args[1], args[2], args[3])
  /\ handlers' = [handlers EXCEPT ![s] = Return(Doing(@, "open", newId))]
  /\ UNCHANGED <<pureVars, initVars, authenticated, hostVars, dispatched>>

\* createFile is rejected
create_createFile_fail(s) ==
  /\ handlers[s].pc = "create_createFile"
  /\ handlers' = [handlers EXCEPT ![s] = _showError(@, "ProviderError", _provider)]
  /\ UNCHANGED <<pureVars, initVars, providerVars, hostVars, dispatched>>

(***************************************************************************)
(* changeCodeBlockDescription                                              *)
(***************************************************************************)
\* what the user may answer to 'Enter Description': a text, the empty
\* text, or NoKey for a cancelled box
Descriptions == {"u", "v", "", NoKey}

\* getStorageBlockById(id): the block as it is now
ProviderGetStorageBlockById(rem, id) ==
  [id |-> id, files |-> rem[id].files, description |-> rem[id].description]

\* changeDescription(id, description)
ProviderChangeDescription(rem, id, description) ==
  [rem EXCEPT ![id].description = description]

\* changeCodeBlockDescription up to its first await
changeCodeBlockDescription(s) ==
  /\ CanDispatch(s)
  /\ dispatched' = dispatched + 1
  /\ handlers' = [handlers EXCEPT ![s] =
        OnCurrentDocument(Invocation("changeCodeBlockDescription"),
                          "getStorageBlockById", "describe_getStorageBlockById", FALSE)]
  /\ UNCHANGED <<pureVars, initVars, providerVars, hostVars>>

\* getStorageBlockById answers, and the box is shown with the block's
\* description
describe_getStorageBlockById_ok(s) ==
  /\ handlers[s].pc = "describe_getStorageBlockById"
  /\ Known(remote, LastArgs(handlers[s])[1])
  /\ handlers' = [handlers EXCEPT ![s] =
        [Prompting(@, "Enter Description")
           EXCEPT !.codeBlock = ProviderGetStorageBlockById(remote, LastArgs(handlers[s])[1]),
                  !.pc = "describe_prompt"]]
  /\ UNCHANGED <<pureVars, initVars, providerVars, hostVars, dispatched>>

\* getStorageBlockById is rejected
describe_getStorageBlockById_fail(s) ==
  /\ handlers[s].pc = "describe_getStorageBlockById"
  /\ handlers' = [handlers EXCEPT ![s] = _showError(@, "ProviderError", _provider)]
  /\ UNCHANGED <<pureVars, initVars, providerVars, hostVars, dispatched>>

\* a handler that calls changeDescription for every answer but a
\* cancelled box
AfterPromptUnlessCancelled(hr, description) ==
  IF description = NoKey THEN Return(hr)
  ELSE [Calling(hr, "changeDescription", <<LastArgs(hr)[1], description>>)
          EXCEPT !.pc = "describe_changeDescription"]

\* lines 173-176: an answer that is falsy (undefined or the empty string)
\* makes the handler return; otherwise changeDescription is called with
\* details.storageBlockId, the id the block was fetched by
AfterPrompt(hr, description) ==
  IF description \in {NoKey, ""} THEN Return(hr)
  ELSE [Calling(hr, "changeDescription", <<LastArgs(hr)[1], description>>)
          EXCEPT !.pc = "describe_changeDescription"]

\* the box answers
describe_prompt(s, description) ==
  /\ handlers[s].pc = "describe_prompt"
  /\ handlers' = [handlers EXCEPT ![s] =
        AfterPrompt([@ EXCEPT !.description = description], description)]
  /\ UNCHANGED <<pureVars, initVars, providerVars, hostVars, dispatched>>

\* changeDescription takes effect and the handler resumes: the
\* notification is shown (not awaited) and the handler returns
describe_changeDescription_ok(s) ==
  /\ handlers[s].pc = "describe_changeDescription"
  /\ LET args == LastArgs(handlers[s])
     IN /\ Known(remote, args[1])
        /\ remote' = ProviderChangeDescription(remote, args[1], args[2])
  /\ handlers' = [handlers EXCEPT ![s] = Return(_notify(@, "Block Description Saved"))]
  /\ UNCHANGED <<pureVars, initVars, authenticated, hostVars, dispatched>>

\* changeDescription is rejected
describe_changeDescription_fail(s) ==
  /\ handlers[s].pc = "describe_changeDescription"
  /\ handlers' = [handlers EXCEPT ![s] = _showError(@, "ProviderError", _provider)]
  /\ UNCHANGED <<pureVars, initVars, providerVars, hostVars, dispatched>>

(***************************************************************************)
(* Initial states.  The window the extension is activated in may already   *)
(* hold editors (a restored session); the provider may hold blocks.        *)
(***************************************************************************)
\* the path of file name in the working copy of block id with suffix junk
WcPath(id, junk, name) == PathJoin(_createTmpDir(id, junk), name)

\* a document that belongs to no working copy
Unrelated == <<Sep, "h", Sep, "n">>

\* block ids of the provider
IdA == <<"a">>
IdB == <<"b">>

\* file names
NameX == <<"x">>
NameY == <<"y">>

File(name, content) == [name |-> name, content |-> content]

\* the state after construction: _init() has been called and is suspended
\* at store.get; no handler runs
InitMachine(layouts, stores, directories) ==
  /\ call = Undefined
  /\ ret = Undefined
  /\ _provider = NoKey
  /\ _store \in {NoKey, ProviderKey}
  /\ _codeFileServices \in {{ProviderKey}, {ProviderKey, OtherKey}}
  /\ initPc = "get"
  /\ authenticated \in BOOLEAN
  /\ remote \in stores
  /\ groups \in layouts
  /\ activeGroup = 1
  /\ hostQueue = <<>>
  /\ dirs = {<<Sep>>, TmpRoot} \cup directories
  /\ files = {}
  /\ handlers = [s \in Slots |-> IdleHandler]
  /\ dispatched = 0

(***************************************************************************)
(* SpecSave: save events on the documents of a window that shows a file of *)
(* a working copy of block a, an unrelated file, and a file of a directory *)
(* named for the empty block id.                                           *)
(***************************************************************************)
SaveStore == (IdA :> [files |-> <<File(NameX, "t0")>>])

SaveLayout ==
  <<[tabs |-> <<WcPath(IdA, <<"7">>, NameX), Unrelated, WcPath(<<>>, <<"7">>, NameX)>>,
    active |-> 1]>>

InitSave == InitMachine({SaveLayout}, {SaveStore}, {_createTmpDir(IdA, <<"7">>)})

NextSave ==
  \/ _init
  \/ _setProvider
  \/ \E s \in Slots : \E doc \in SavableDocs : onSaveTextDocument(s, doc)
  \/ \E s \in Slots : onSave_editFile_ok(s)
  \/ \E s \in Slots : onSave_editFile_fail(s)
  \/ \E s \in Slots : onSave_notified(s)

SpecSave == InitSave /\ [][NextSave]_vars

\* the identity a handler's saved document decodes to
SavedDetails(hr) == _getCodeFileDetails(hr.doc)

C3_UndecodableSaveIsNoOp ==
  \A s \in Slots :
    (handlers[s].cmd = "onSaveTextDocument" /\ SavedDetails(handlers[s]) = Undefined)
      => /\ handlers[s].calls = <<>>
         /\ handlers[s].infos = <<>>
         /\ handlers[s].errors = <<>>
         /\ handlers[s].result = "returned"

\* C4: no handler ends with an error propagating uncaught to the host.
C4_NoUncaughtError == \A s \in Slots : handlers[s].result # "rejected"

(***************************************************************************)
(* SpecCodec: the round trip of the identity codec as a pure function.     *)
(* The inputs are a block id, the suffix tmp draws and a file name; the    *)
(* steps are those of openCodeBlock (_createTmpDir, then the path.join of  *)
(* _openTextDocument) followed by the _getCodeFileDetails of a later       *)
(* command on the document opened at that path.                            *)
(***************************************************************************)
IdPieces == {<<"a">>, <<"_">>, <<Sep>>, <<".">>}

NamePieces ==
  {<<"x">>, <<".">>, DotDot, <<Sep>>, <<"\n">>, Prefix \o <<"q", "_", Sep>>}

CodecIds == Concats(IdPieces, MaxIdPieces)
CodecNames == Concats(NamePieces, MaxNamePieces)

\* the machine at rest, for the specifications of pure functions
AtRest ==
  /\ _provider = NoKey
  /\ _store = NoKey
  /\ _codeFileServices = {ProviderKey}
  /\ initPc = "get"
  /\ authenticated = FALSE
  /\ remote = <<>>
  /\ groups = <<EmptyGroup>>
  /\ activeGroup = 1
  /\ hostQueue = <<>>
  /\ dirs = {<<Sep>>, TmpRoot}
  /\ files = {}
  /\ handlers = [s \in Slots |-> IdleHandler]
  /\ dispatched = 0

machineVars == <<initVars, providerVars, hostVars, handlerVars>>

InitCodec ==
  /\ call \in [fn : {"roundTrip"}, stage : {"input"}, blockId : CodecIds,
               junk : Junks, fileName : CodecNames,
               directory : {NoString}, file : {NoString}]
  /\ ret = Undefined
  /\ AtRest

\* line 26: const directory = this._createTmpDir(codeBlock.id)
Codec_createTmpDir ==
  /\ call.stage = "input"
  /\ call' = [call EXCEPT !.stage = "directory",
                          !.directory = _createTmpDir(call.blockId, call.junk)]
  /\ UNCHANGED <<ret, machineVars>>

\* line 245: let file = path.join(dir, filename)
Codec_join ==
  /\ call.stage = "directory"
  /\ call' = [call EXCEPT !.stage = "file",
                          !.file = PathJoin(call.directory, call.fileName)]
  /\ UNCHANGED <<ret, machineVars>>

\* _getCodeFileDetails on the document of that file
Codec_decode ==
  /\ call.stage = "file"
  /\ call' = [call EXCEPT !.stage = "decoded"]
  /\ ret' = _getCodeFileDetails([fileName |-> call.file])
  /\ UNCHANGED machineVars

NextCodec == Codec_createTmpDir \/ Codec_join \/ Codec_decode

SpecCodec == InitCodec /\ [][NextCodec]_vars

HasChar(s, c) == \E k \in 1..Len(s) : s[k] = c

\* the decoded identity is (id, name)
DecodesTo(details, id, name) ==
  /\ details # Undefined
  /\ details.storageBlockId = id
  /\ details.fileName = name

JoinedLiterally ==
  /\ call.directory = TmpRoot \o <<Sep>> \o Prefix \o call.blockId \o <<"_">> \o call.junk
  /\ call.file = call.directory \o <<Sep>> \o call.fileName

\* a file name the codec can carry: no line terminator in it, and no match
\* of the directory pattern inside it
PlainName(name) ==
  /\ \A k \in 1..Len(name) : Dot(name[k])
  /\ RegexMatch(name) = Undefined

NameX1 == <<"x", "1">>

AddStore ==
  (IdA :> [files |-> <<File(NameX, "t0")>>]) @@ (IdB :> [files |-> <<File(HasOwnProperty, "t0")>>])

AddLayout ==
  <<[tabs |-> <<<<Sep, "h", Sep>> \o NameX, WcPath(IdA, <<"7">>, NameX1)>>, active |-> 1]>>

InitAdd ==
  InitMachine({AddLayout, <<EmptyGroup>>}, {AddStore}, {_createTmpDir(IdA, <<"7">>)})

Select(s) ==
  \/ \E answer \in Answers : select_username(s, answer)
  \/ \E answer \in Answers : select_password(s, answer)
  \/ select_login_ok(s)
  \/ select_login_fail(s)
  \/ select_list_ok(s)
  \/ select_list_fail(s)
  \/ \E k \in 1..Len(handlers[s].listed) : select_pick(s, k)
  \/ select_cancel(s)
  \/ select_getStorageBlock_fail(s)

NextAdd ==
  \/ _init
  \/ _setProvider
  \/ \E s \in Slots : \E text \in Texts : addToCodeBlock(s, text)
  \/ \E s \in Slots : Select(s)
  \/ \E s \in Slots : add_getStorageBlock_ok(s)
  \/ \E s \in Slots : add_editFile_ok(s)
  \/ \E s \in Slots : add_editFile_fail(s)
  \/ \E s \in Slots : \E doc \in SavableDocs : onSaveTextDocument(s, doc)
  \/ \E s \in Slots : onSave_editFile_ok(s)
  \/ \E s \in Slots : onSave_editFile_fail(s)
  \/ \E s \in Slots : onSave_notified(s)

SpecAdd == InitAdd /\ [][NextAdd]_vars

\* C6: in every execution, the file name an addToCodeBlock passes to
\* editFile is not a key of the block's file mapping at the moment the
\* editFile takes effect: no add replaces the content of an existing file.
C6_NoSilentOverwrite == \A s \in Slots : ~handlers[s].overwrote

(***************************************************************************)
(* SpecCollision: the collision resolution of addToCodeBlock as a pure     *)
(* function of the selected block's file mapping and the candidate name.   *)
(***************************************************************************)
MaxFiles == 3

Name_a_txt == <<"a", ".", "t", "x", "t">>
Name_a1_txt == <<"a", "1", ".", "t", "x", "t">>
Name_a2_txt == <<"a", "2", ".", "t", "x", "t">>
Name_readme == <<"r", "e", "a", "d", "m", "e">>
Name_readme1 == Name_readme \o <<"1">>
Name_rc == <<".", "r", "c">>
Name_1rc == <<"1">> \o Name_rc
Name_a_b_c == <<"a", ".", "b", ".", "c">>
Name_a_b1_c == <<"a", ".", "b", "1", ".", "c">>

Candidates == {Name_a_txt, Name_readme, Name_rc, Name_a_b_c}

StoredNames ==
  Candidates \cup {Name_a1_txt, Name_a2_txt, Name_readme1, Name_1rc, Name_a_b1_c,
                   HasOwnProperty}

\* the file mappings of at most MaxFiles files with names in StoredNames
Mappings ==
  {fs \in UNION {[1..n -> {File(name, "t0") : name \in StoredNames}] : n \in 0..MaxFiles} :
     \A j \in 1..Len(fs) : \A k \in 1..Len(fs) : fs[j].name = fs[k].name => j = k}

InitCollision ==
  /\ call \in [fn : {"resolve"}, stage : {"input"}, files : Mappings,
               fileName : Candidates]
  /\ ret = NoString
  /\ AtRest

\* lines 147-158 on the mapping and the candidate
Collision_resolve ==
  /\ call.stage = "input"
  /\ call' = [call EXCEPT !.stage = "resolved"]
  /\ ret' = ResolveFileName(call.files, call.fileName)
  /\ UNCHANGED machineVars

\* line 159: the resolved name is passed on
Collision_persist ==
  /\ call.stage = "resolved"
  /\ ret # Thrown
  /\ call' = [call EXCEPT !.stage = "persisted"]
  /\ UNCHANGED <<ret, machineVars>>

NextCollision == Collision_resolve \/ Collision_persist

SpecCollision == InitCollision /\ [][NextCollision]_vars

\* where the extension of a name starts: at its last ".", or after its end
ExtStart(name) ==
  IF HasChar(name, ".")
  THEN CHOOSE k \in 1..Len(name) :
         name[k] = "." /\ \A j \in (k + 1)..Len(name) : name[j] # "."
  ELSE Len(name) + 1

\* base + i + ext
Numbered(name, i) ==
  SubSeq(name, 1, ExtStart(name) - 1) \o NumberToString(i)
    \o SubSeq(name, ExtStart(name), Len(name))

\* the name the collision resolution is to give: the candidate when it is
\* not a key, otherwise base + i + ext for the smallest i >= 1 that is free
FreeName(keys, name) ==
  IF name \notin keys THEN name
  ELSE LET i == CHOOSE n \in 1..(Cardinality(keys) + 1) :
                  /\ Numbered(name, n) \notin keys
                  /\ \A j \in 1..(n - 1) : Numbered(name, j) \in keys
       IN Numbered(name, i)

\* C5: a candidate that is not a key of the file mapping is used unchanged;
\* otherwise the persisted name is base + i + ext for the smallest i >= 1
\* for which that name is not a key, ext starting at the last "." of the
\* candidate and empty when it has none.
C5_CollisionResolution ==
  call.stage # "input"
    => ret = FreeName(Keys(call.files), call.fileName)

\* C5 on the mappings without a file named hasOwnProperty
C5_CollisionResolutionOfPlainMappings ==
  (call.stage # "input" /\ HasOwnProperty \notin Keys(call.files))
    => ret = FreeName(Keys(call.files), call.fileName)

(***************************************************************************)
(* SpecOpen: openCodeBlock, one invocation after another.  The provider    *)
(* holds a block of two plain files, a block whose file names hold "."     *)
(* and ".." segments, and a block with a nested file name.  The window is  *)
(* empty, or shows unrelated files in one or in two groups.                *)
(***************************************************************************)
IdC == <<"c">>
NameUpX == DotDot \o <<Sep>> \o NameX
NameDotY == <<".", Sep>> \o NameY
NameNested == <<"d", Sep, "z">>
Unrelated2 == <<Sep, "h", Sep, "m">>

OpenStore ==
  (IdA :> [files |-> <<File(NameX, "t0"), File(NameY, "t1")>>])
  @@ (IdB :> [files |-> <<File(NameUpX, "t0"), File(NameDotY, "t0")>>])
  @@ (IdC :> [files |-> <<File(NameNested, "t0")>>])

OpenLayouts ==
  {<<EmptyGroup>>,
   <<[tabs |-> <<Unrelated, Unrelated2>>, active |-> 1]>>,
   <<[tabs |-> <<Unrelated>>, active |-> 1], [tabs |-> <<Unrelated2>>, active |-> 1]>>}

InitOpen == InitMachine(OpenLayouts, {OpenStore}, {})

\* the slot the handlers of SpecOpen run in
OpenSlot == "h1"

NextOpen ==
  \/ _init
  \/ _setProvider
  \/ \E favorite \in BOOLEAN : openCodeBlock(OpenSlot, favorite)
  \/ Select(OpenSlot)
  \/ open_getStorageBlock_ok(OpenSlot)
  \/ open_closeOthers(OpenSlot)
  \/ open_focus(OpenSlot)
  \/ open_split(OpenSlot)
  \/ open_openDoc(OpenSlot)
  \/ open_show(OpenSlot)

SpecOpen == InitOpen /\ [][NextOpen]_vars

\* the identity the path p decodes to
Decoded(p) == _getCodeFileDetails([fileName |-> p])

\* the paths of the visible text editors
VisiblePaths == {VisibleOf(groups)[k].document.fileName : k \in 1..Len(VisibleOf(groups))}

\* the groups whose editor shows a path that decodes to (id, name)
EditorsOf(id, name) ==
  {g \in 1..Len(groups) :
     /\ ShownIn(groups[g]) # NoString
     /\ DecodesTo(Decoded(ShownIn(groups[g])), id, name)}

\* the handler in slot s is an openCodeBlock that has returned, with a block
\* selected and no error shown
OpenedSuccessfully(s) ==
  /\ handlers[s].cmd = "openCodeBlock"
  /\ handlers[s].result = "returned"
  /\ handlers[s].codeBlock # Undefined
  /\ handlers[s].errors = <<>>

\* C7: after openCodeBlock completes successfully for a selected block,
\* every file name of the block's file mapping has exactly one open editor,
\* and the path of that editor decodes to (the block's id, that file name).
C7_OneEditorPerFile ==
  OpenedSuccessfully(OpenSlot)
    => \A name \in Keys(handlers[OpenSlot].codeBlock.files) :
         Cardinality(EditorsOf(handlers[OpenSlot].codeBlock.id, name)) = 1

\* path file lies under directory dir
Under(file, dir) == Len(file) > Len(dir) + 1 /\ HasAt(file, 1, dir \o <<Sep>>)

\* s is a prefix of t
IsPrefix(s, t) == Len(s) <= Len(t) /\ SubSeq(t, 1, Len(s)) = s

\* the calls on the host that open the k-th file of the mapping fs in
\* directory dir: for a file after the first a focus of the first group and
\* a split, then the file written, opened and shown
FileOps(dir, fs, k) ==
  LET file == PathJoin(dir, fs[k].name)
  IN (IF k > 1
      THEN <<[op |-> "focusFirstEditorGroup", arg |-> NoString],
             [op |-> "splitEditor", arg |-> NoString]>>
      ELSE <<>>)
     \o <<[op |-> "writeFileSync", arg |-> file],
          [op |-> "openTextDocument", arg |-> file],
          [op |-> "showTextDocument", arg |-> file],
          [op |-> "shown", arg |-> file]>>

RECURSIVE AllFileOps(_, _, _)
AllFileOps(dir, fs, k) ==
  IF k > Len(fs) THEN <<>> ELSE FileOps(dir, fs, k) \o AllFileOps(dir, fs, k + 1)

\* the calls of a handler after the directory was made and the other
\* editors were closed
LoopOps(hr) ==
  LET rest == Tail(hr.ops)
  IN IF rest # <<>> /\ Head(rest).op = "closeOtherEditors" THEN Tail(rest) ELSE rest

\* C8: one openCodeBlock allocates exactly one directory and writes and
\* opens all the files of the block under it, one after another in the
\* iteration order of the file mapping: the first file without a split,
\* each later file after a focus of the first group and a split, and after
\* the editor of the file before it was shown.
C8_OpenOrdering ==
  LET hr == handlers[OpenSlot]
  IN (hr.cmd = "openCodeBlock" /\ hr.codeBlock # Undefined)
       => /\ hr.ops # <<>>
          /\ hr.ops[1] = [op |-> "createTmpDir", arg |-> hr.directory]
          /\ \A k \in 2..Len(hr.ops) : hr.ops[k].op # "createTmpDir"
          /\ IsPrefix(LoopOps(hr), AllFileOps(hr.directory, hr.codeBlock.files, 1))
          /\ OpenedSuccessfully(OpenSlot)
               => LoopOps(hr) = AllFileOps(hr.directory, hr.codeBlock.files, 1)
          /\ \A k \in 1..Len(hr.ops) :
               hr.ops[k].op = "writeFileSync" => Under(hr.ops[k].arg, hr.directory)

\* path p belongs to block id
BoundTo(p, id) == Decoded(p) # Undefined /\ Decoded(p).storageBlockId = id

\* C9: when openCodeBlock is entered with editors open, every editor that
\* was open on entry and does not belong to the block being opened is
\* closed before the first file of the block is opened.
C9_FullResetOnOpen ==
  LET hr == handlers[OpenSlot]
  IN (hr.cmd = "openCodeBlock" /\ hr.i >= 1)
       => \A p \in hr.entryTabs :
            ~BoundTo(p, hr.codeBlock.id) => p \notin OpenPaths(groups)

\* the working-copy directory of a path that decodes
WcDirOf(p) == SubSeq(p, 1, Len(p) - Len(Decoded(p).fileName) - 1)

\* C10: the open editors bound to any one block id all lie under a single
\* working-copy directory.
C10_OneDirectoryPerBlock ==
  \A p \in OpenPaths(groups) : \A q \in OpenPaths(groups) :
    (/\ Decoded(p) # Undefined
     /\ Decoded(q) # Undefined
     /\ Decoded(p).storageBlockId = Decoded(q).storageBlockId)
      => WcDirOf(p) = WcDirOf(q)

(***************************************************************************)
(* SpecDelete: deleteCodeBlock and removeFileFromCodeBlock on a window     *)
(* that shows files of working copies of blocks a and b and unrelated      *)
(* files.                                                                  *)
(***************************************************************************)
DeleteStore ==
  (IdA :> [files |-> <<File(NameX, "t0"), File(NameY, "t1")>>])
  @@ (IdB :> [files |-> <<File(NameX, "t0")>>])

DeleteLayouts ==
  {<<[tabs |-> <<WcPath(IdA, <<"7">>, NameX), Unrelated>>, active |-> 1],
     [tabs |-> <<WcPath(IdA, <<"7">>, NameY)>>, active |-> 1]>>,
   <<[tabs |-> <<WcPath(IdA, <<"7">>, NameX)>>, active |-> 1],
     [tabs |-> <<WcPath(IdA, <<"7">>, NameY)>>, active |-> 1],
     [tabs |-> <<WcPath(IdB, <<"7">>, NameX)>>, active |-> 1]>>,
   <<[tabs |-> <<Unrelated>>, active |-> 1],
     [tabs |-> <<WcPath(IdA, <<"7">>, NameX)>>, active |-> 1]>>,
   <<EmptyGroup>>}

InitDelete ==
  InitMachine(DeleteLayouts, {DeleteStore},
              {_createTmpDir(IdA, <<"7">>), _createTmpDir(IdB, <<"7">>)})

NextDelete ==
  \/ _init
  \/ _setProvider
  \/ \E s \in Slots : deleteCodeBlock(s)
  \/ \E s \in Slots : delete_deleteStorageBlock_ok(s)
  \/ \E s \in Slots : delete_deleteStorageBlock_fail(s)
  \/ \E s \in Slots : removeFileFromCodeBlock(s)
  \/ \E s \in Slots : remove_removeFile_ok(s)
  \/ \E s \in Slots : remove_removeFile_fail(s)
  \/ host_closeActiveEditor

SpecDelete == InitDelete /\ [][NextDelete]_vars

\* the handler in slot s is a deleteCodeBlock that deleted its block and
\* returned, the host has executed the commands it sent, and no other
\* event has been dispatched
DeleteDone(s) ==
  /\ dispatched = 1
  /\ handlers[s].cmd = "deleteCodeBlock"
  /\ handlers[s].result = "returned"
  /\ handlers[s].infos = <<"Block Deleted">>
  /\ hostQueue = <<>>

\* C11: after a successful deleteCodeBlock of block B, the visible editors
\* whose path decoded to B at the time of the sweep are closed, and every
\* editor that was visible then and is bound to another block or to no
\* block is still open.
C11_DeleteSweep ==
  \A s \in Slots :
    DeleteDone(s)
      => \A p \in handlers[s].swept :
           IF BoundTo(p, LastArgs(handlers[s])[1])
           THEN p \notin VisiblePaths
           ELSE p \in VisiblePaths

\* what C13 says of the removeFileFromCodeBlock in slot s
RemoveFileContract(s) ==
  LET hr == handlers[s]
      d == Decoded(hr.entryActive)
  IN /\ (hr.entryActive # NoString /\ d = Undefined)
          => /\ hr.errors = <<"Not a code block">>
             /\ hr.calls = <<>>
             /\ hr.ops = <<>>
     /\ (hr.entryActive # NoString /\ d # Undefined)
          => /\ hr.calls = <<[op |-> "removeFileFromStorageBlock",
                              args |-> <<d.storageBlockId, d.fileName>>]>>
             /\ hr.errors # <<>> => (hr.ops = <<>> /\ hr.infos = <<>>)
             /\ hr.infos # <<>>
                  => /\ hr.ops = <<[op |-> "closeActiveEditor", arg |-> NoString]>>
                     /\ (dispatched = 1 /\ hostQueue = <<>>)
                          => hr.entryActive \notin VisiblePaths

\* C13: removeFileFromCodeBlock on an editor whose path does not decode
\* fails with a scope error, calls no provider and closes no editor;
\* otherwise it calls removeFileFromStorageBlock with the decoded identity
\* and then closes the editor, and when that call fails the editor is left
\* open and no notification is shown.
C13_RemoveFile ==
  \A s \in Slots : handlers[s].cmd = "removeFileFromCodeBlock" => RemoveFileContract(s)

\* C13 for the commands entered with a resolved provider
C13_RemoveFileWithProvider ==
  \A s \in Slots :
    (handlers[s].cmd = "removeFileFromCodeBlock" /\ handlers[s].entryProvider # NoKey)
      => RemoveFileContract(s)

\* what C18 says of the deleteCodeBlock in slot s
DeleteContract(s) ==
  LET hr == handlers[s]
  IN /\ hr.ops # <<>> => ~Known(remote, LastArgs(hr)[1])
     /\ (hr.entryActive # NoString /\ Decoded(hr.entryActive) = Undefined)
          => /\ hr.calls = <<>>
             /\ hr.ops = <<>>
             /\ hr.infos = <<>>
             /\ Len(hr.errors) = 1
     /\ (hr.calls # <<>> /\ hr.result # "running")
          => \/ hr.infos = <<"Block Deleted">> /\ hr.errors = <<>>
             \/ hr.infos = <<>> /\ hr.ops = <<>> /\ Len(hr.errors) = 1

\* C18: deleteStorageBlock has completed before any editor is closed; when
\* the active editor is not bound to a block, or deleteStorageBlock fails,
\* no editor is closed, no 'Block Deleted' notification is shown and
\* exactly one error notification is shown.
C18_DeleteOrdering ==
  \A s \in Slots : handlers[s].cmd = "deleteCodeBlock" => DeleteContract(s)

\* C18 for the commands entered with a resolved provider
C18_DeleteOrderingWithProvider ==
  \A s \in Slots :
    (handlers[s].cmd = "deleteCodeBlock" /\ handlers[s].entryProvider # NoKey)
      => DeleteContract(s)

(***************************************************************************)
(* SpecDecode: _getCodeFileDetails as a pure function of a path.           *)
(***************************************************************************)
MaxPathPieces == 4

PathPieces == {<<Sep>>, <<"x">>, Prefix, <<"a", "_">>}

DecodedPaths == Concats(PathPieces, MaxPathPieces)

InitDecode ==
  /\ call \in [fn : {"decode"}, stage : {"input"}, path : DecodedPaths]
  /\ ret = Undefined
  /\ AtRest

\* _getCodeFileDetails on a document of that path
Decode_getCodeFileDetails ==
  /\ call.stage = "input"
  /\ call' = [call EXCEPT !.stage = "decoded"]
  /\ ret' = _getCodeFileDetails([fileName |-> call.path])
  /\ UNCHANGED machineVars

NextDecode == Decode_getCodeFileDetails

SpecDecode == InitDecode /\ [][NextDecode]_vars

\* the segments of a path that are followed by a separator
RECURSIVE DirectorySegments(_)
DirectorySegments(p) ==
  IF IndexFrom(p, 1, Sep) = 0 THEN {}
  ELSE {SubSeq(p, 1, IndexFrom(p, 1, Sep) - 1)}
         \cup DirectorySegments(SubSeq(p, IndexFrom(p, 1, Sep) + 1, Len(p)))

\* a segment of the form vscode_gist_<id without underscore>_<anything>
WorkingCopySegment(seg) ==
  HasAt(seg, 1, Prefix) /\ IndexFrom(seg, Len(Prefix) + 1, "_") # 0

\* C12: decoding a path that has no segment of the form
\* vscode_gist_<id without underscore>_<anything> followed by a separator
\* returns none.
C12_UnrelatedPathDecodesToNone ==
  (/\ call.stage = "decoded"
   /\ \A seg \in DirectorySegments(call.path) : ~WorkingCopySegment(seg))
    => ret = Undefined

(***************************************************************************)
(* SpecCreate: createCodeBlock and addToCodeBlock on a window that shows   *)
(* nothing or one unrelated file.                                          *)
(***************************************************************************)
CreateStore == (IdA :> [files |-> <<File(NameX, "t0")>>, description |-> "u"])

CreateLayouts == {<<EmptyGroup>>, <<[tabs |-> <<Unrelated>>, active |-> 1]>>}

InitCreate == InitMachine(CreateLayouts, {CreateStore}, {})

\* the slot the handlers of SpecCreate run in
CreateSlot == "h1"

NextCreate ==
  \/ _init
  \/ _setProvider
  \/ \E text \in Texts : createCodeBlock(CreateSlot, text)
  \/ \E answer \in Answers : create_description(CreateSlot, answer)
  \/ \E answer \in PrivateAnswers : create_private(CreateSlot, answer)
  \/ \E newId \in NewIds : create_createFile_ok(CreateSlot, newId)
  \/ create_createFile_fail(CreateSlot)
  \/ \E text \in Texts : addToCodeBlock(CreateSlot, text)
  \/ Select(CreateSlot)
  \/ add_getStorageBlock_ok(CreateSlot)
  \/ add_editFile_ok(CreateSlot)
  \/ add_editFile_fail(CreateSlot)

SpecCreate == InitCreate /\ [][NextCreate]_vars

\* what C14 says of a command entered without a focused editor
NoEditorContract(hr) ==
  /\ hr.prompts = <<>>
  /\ hr.calls = <<>>
  /\ Len(hr.errors) = 1
  /\ hr.result = "returned"

\* C14: createCodeBlock, and likewise addToCodeBlock, invoked with no
\* focused editor fails before any prompt, login or provider call is made,
\* and exactly one error notification is shown.
C14_NoEditorFailsFirst ==
  (/\ handlers[CreateSlot].cmd \in {"createCodeBlock", "addToCodeBlock"}
   /\ handlers[CreateSlot].entryActive = NoString)
    => NoEditorContract(handlers[CreateSlot])

\* C14 for the commands entered with a resolved provider
C14_NoEditorFailsFirstWithProvider ==
  (/\ handlers[CreateSlot].cmd \in {"createCodeBlock", "addToCodeBlock"}
   /\ handlers[CreateSlot].entryActive = NoString
   /\ handlers[CreateSlot].entryProvider # NoKey)
    => NoEditorContract(handlers[CreateSlot])

(***************************************************************************)
(* SpecDescribe: changeCodeBlockDescription, one invocation after another, *)
(* on a window that shows a file of a working copy of block a, an          *)
(* unrelated file, or nothing.                                             *)
(***************************************************************************)
DescribeStore == (IdA :> [files |-> <<File(NameX, "t0")>>, description |-> "u"])

DescribeLayouts ==
  {<<[tabs |-> <<WcPath(IdA, <<"7">>, NameX)>>, active |-> 1]>>,
   <<[tabs |-> <<Unrelated>>, active |-> 1]>>,
   <<EmptyGroup>>}

InitDescribe == InitMachine(DescribeLayouts, {DescribeStore}, {_createTmpDir(IdA, <<"7">>)})

\* the slot the handlers of SpecDescribe run in
DescribeSlot == "h1"

NextDescribe ==
  \/ _init
  \/ _setProvider
  \/ changeCodeBlockDescription(DescribeSlot)
  \/ describe_getStorageBlockById_ok(DescribeSlot)
  \/ describe_getStorageBlockById_fail(DescribeSlot)
  \/ \E description \in Descriptions : describe_prompt(DescribeSlot, description)
  \/ describe_changeDescription_ok(DescribeSlot)
  \/ describe_changeDescription_fail(DescribeSlot)

SpecDescribe == InitDescribe /\ [][NextDescribe]_vars

\* the box of the handler has been shown and has answered
Answered(hr) ==
  /\ hr.cmd = "changeCodeBlockDescription"
  /\ hr.prompts = <<"Enter Description">>
  /\ hr.pc # "describe_prompt"

\* the calls of changeDescription a handler has made
ChangeCalls(hr) == {k \in 1..Len(hr.calls) : hr.calls[k].op = "changeDescription"}

\* C15: when the description box returns an empty value or is cancelled,
\* changeCodeBlockDescription is a silent no-op: changeDescription is not
\* called, the remote description is unchanged, and neither a success nor
\* an error notification is shown; when it returns a non-empty value,
\* changeDescription is called exactly once, with the decoded block id and
\* that value.
C15_EmptyDescriptionIsNoOp ==
  LET hr == handlers[DescribeSlot]
  IN Answered(hr)
       => IF hr.description \in {NoKey, ""}
          THEN /\ ChangeCalls(hr) = {}
               /\ remote[hr.codeBlock.id].description = hr.codeBlock.description
               /\ hr.infos = <<>>
               /\ hr.errors = <<>>
               /\ hr.result = "returned"
          ELSE /\ Cardinality(ChangeCalls(hr)) = 1
               /\ hr.calls[Len(hr.calls)] =
                    [op |-> "changeDescription",
                     args |-> <<Decoded(hr.entryActive).storageBlockId, hr.description>>]

\* the box was answered with the empty text and the command returned
\* silently
C15_Witness ==
  /\ Answered(handlers[DescribeSlot])
  /\ handlers[DescribeSlot].description = ""
  /\ handlers[DescribeSlot].result = "returned"
  /\ handlers[DescribeSlot].infos = <<>>
  /\ handlers[DescribeSlot].errors = <<>>
  /\ remote[IdA].description = "u"

(***************************************************************************)
(* SpecSelect: the block-selecting commands openCodeBlock and              *)
(* addToCodeBlock, with up to two handlers in flight, on a provider that   *)
(* is logged in or not.                                                    *)
(***************************************************************************)
SelectStore == (IdA :> [files |-> <<File(NameX, "t0")>>])

SelectLayouts == {<<[tabs |-> <<Unrelated>>, active |-> 1]>>}

InitSelect == InitMachine(SelectLayouts, {SelectStore}, {})

NextSelect ==
  \/ _init
  \/ _setProvider
  \/ \E s \in Slots : \E favorite \in BOOLEAN : openCodeBlock(s, favorite)
  \/ \E s \in Slots : \E text \in Texts : addToCodeBlock(s, text)
  \/ \E s \in Slots : Select(s)
  \/ \E s \in Slots : add_getStorageBlock_ok(s)
  \/ \E s \in Slots : add_editFile_ok(s)
  \/ \E s \in Slots : add_editFile_fail(s)
  \/ \E s \in Slots : open_getStorageBlock_ok(s)
  \/ \E s \in Slots : open_closeOthers(s)
  \/ \E s \in Slots : open_openDoc(s)
  \/ \E s \in Slots : open_show(s)

SpecSelect == InitSelect /\ [][NextSelect]_vars

\* the calls of op a handler has made
CallsOf(hr, op) == {k \in 1..Len(hr.calls) : hr.calls[k].op = op}

\* the handler was found unauthenticated: it has asked for the user name
AskedToLogIn(hr) == hr.prompts # <<>> /\ hr.prompts[1] = "username"

\* login was rejected, or a credential prompt was cancelled: the handler
\* has ended at a credential prompt without having called login
EndedAtLogin(hr) ==
  \/ hr.errors = <<"AuthError">>
  \/ /\ hr.result # "running"
     /\ hr.prompts # <<>>
     /\ hr.prompts[Len(hr.prompts)] \in {"username", "password"}
     /\ CallsOf(hr, "login") = {}

\* C16: a block-selecting command never calls list while the provider is
\* unauthenticated: when it found the provider unauthenticated, both
\* credential prompts and a login that succeeded precede list, and when
\* login fails or a credential prompt is cancelled it calls neither list
\* nor getStorageBlock.
C16_LoginGate ==
  \A s \in Slots :
    LET hr == handlers[s]
    IN hr.cmd \in {"openCodeBlock", "addToCodeBlock"}
         => /\ CallsOf(hr, "list") # {} => authenticated
            /\ (AskedToLogIn(hr) /\ CallsOf(hr, "list") # {})
                 => /\ SubSeq(hr.prompts, 1, 2) = <<"username", "password">>
                    /\ hr.calls[1].op = "login"
                    /\ CallsOf(hr, "list") = {2}
            /\ EndedAtLogin(hr)
                 => CallsOf(hr, "list") \cup CallsOf(hr, "getStorageBlock") = {}

\* a command that found the provider unauthenticated has logged in and
\* listed the blocks
C16_Witness ==
  \E s \in Slots :
    /\ handlers[s].cmd = "openCodeBlock"
    /\ handlers[s].prompts = <<"username", "password", "quickPick">>
    /\ handlers[s].calls[1].op = "login"
    /\ handlers[s].calls[2].op = "list"
    /\ authenticated

(***************************************************************************)
(* Two handlers in flight, one of which may stay suspended for ever.       *)
(***************************************************************************)
StallStore == (IdA :> [files |-> <<File(NameX, "t0")>>])

StallLayouts == {<<[tabs |-> <<WcPath(IdA, <<"7">>, NameX), Unrelated>>, active |-> 1]>>}

InitStall == InitMachine(StallLayouts, {StallStore}, {_createTmpDir(IdA, <<"7">>)})

\* the slot of the handler that may stay suspended, and the slot of the
\* events the host dispatches afterwards
StallSlot == "h1"
LaterSlot == "h2"

\* the awaits of a handler on a user prompt or on a call of the provider
Suspended(hr) ==
  hr.pc \in {"username", "password", "login", "list", "pick", "getStorageBlock",
             "add_editFile", "save_editFile", "save_notify"}

\* a prompt of a save event or of addToCodeBlock in slot s answers, or a
\* call of the provider it awaits resolves or is rejected
PromptOrCallResolves(s) ==
  \/ Select(s)
  \/ add_getStorageBlock_ok(s)
  \/ add_editFile_ok(s)
  \/ add_editFile_fail(s)
  \/ onSave_editFile_ok(s)
  \/ onSave_editFile_fail(s)
  \/ onSave_notified(s)

\* the first handler runs openCodeBlock or addToCodeBlock; a save event or
\* addToCodeBlock is dispatched while it is suspended
NextStall ==
  \/ _init
  \/ _setProvider
  \/ \E favorite \in BOOLEAN : openCodeBlock(StallSlot, favorite)
  \/ \E text \in Texts : addToCodeBlock(StallSlot, text)
  \/ \E doc \in SavableDocs :
       Suspended(handlers[StallSlot]) /\ onSaveTextDocument(LaterSlot, doc)
  \/ \E text \in Texts :
       Suspended(handlers[StallSlot]) /\ addToCodeBlock(LaterSlot, text)
  \/ \E s \in Slots : PromptOrCallResolves(s)
  \/ open_getStorageBlock_ok(StallSlot)
  \/ open_closeOthers(StallSlot)
  \/ open_openDoc(StallSlot)
  \/ open_show(StallSlot)

SpecStall == InitStall /\ [][NextStall]_vars

\* the prompts and the calls of the handler dispatched afterwards resolve;
\* nothing makes those of the first handler resolve
SpecStallFair == SpecStall /\ WF_vars(PromptOrCallResolves(LaterSlot))

\* C17: a command or a save event dispatched while another handler is
\* suspended at a prompt or at a call of the provider ends (it returns, or
\* its promise is rejected), whether or not the suspended handler ever
\* resumes.
C17_StallIsolation ==
  (handlers[LaterSlot].result = "running") ~> (handlers[LaterSlot].result # "running")

\* the later handler has saved, listed or added while the first one is
\* still suspended where it was when the later one was dispatched
C17_Witness ==
  /\ Suspended(handlers[StallSlot])
  /\ handlers[StallSlot].pc \in {"username", "list"}
  /\ handlers[LaterSlot].result = "returned"
  /\ handlers[LaterSlot].calls # <<>>
  /\ handlers[LaterSlot].infos # <<>>

(***************************************************************************)
(* Blocks whose id holds an underscore: opened, then saved.                *)
(***************************************************************************)
\* a block id with an underscore, and one that also leads out of the
\* directory named after the prefix
IdUnder == <<"a", "_", "b">>
IdUpUnder == <<Sep, ".", ".", Sep, "_">>

UnderscoreStore ==
  (IdA :> [files |-> <<File(NameX, "t0")>>])
  @@ (IdUnder :> [files |-> <<File(NameX, "t0")>>])
  @@ (IdUpUnder :> [files |-> <<File(NameX, "t0")>>])

UnderscoreLayouts == {<<[tabs |-> <<Unrelated>>, active |-> 1]>>}

InitUnderscore == InitMachine(UnderscoreLayouts, {UnderscoreStore}, {})

\* the slot of the save events
SaveSlot == "h2"

NextUnderscore ==
  \/ _init
  \/ _setProvider
  \/ \E favorite \in BOOLEAN : openCodeBlock(OpenSlot, favorite)
  \/ Select(OpenSlot)
  \/ open_getStorageBlock_ok(OpenSlot)
  \/ open_closeOthers(OpenSlot)
  \/ open_openDoc(OpenSlot)
  \/ open_show(OpenSlot)
  \/ \E doc \in SavableDocs : onSaveTextDocument(SaveSlot, doc)
  \/ onSave_editFile_ok(SaveSlot)
  \/ onSave_editFile_fail(SaveSlot)
  \/ onSave_notified(SaveSlot)

SpecUnderscore == InitUnderscore /\ [][NextUnderscore]_vars

\* the files openCodeBlock has written inside the directory it created
WorkingCopyFiles(hr) ==
  {hr.ops[k].arg : k \in {j \in 1..Len(hr.ops) : /\ hr.ops[j].op = "writeFileSync"
                                                  /\ Under(hr.ops[j].arg, hr.directory)}}

\* the directory name is the tmp root, a separator, the prefix, the block
\* id, an underscore and the suffix: path.join changed nothing
DirectoryAsComposed(hr) ==
  \E junk \in Junks :
    hr.directory = TmpRoot \o <<Sep>> \o Prefix \o hr.codeBlock.id \o <<"_">> \o junk

\* what the claim says of the working copy openCodeBlock hr made and of
\* the save handler sv
UnderscoreContract(hr, sv) ==
  HasChar(hr.codeBlock.id, "_")
    => /\ \A file \in WorkingCopyFiles(hr) :
            \E details \in {_getCodeFileDetails([fileName |-> file])} :
               /\ details # Undefined
               /\ ~HasChar(details.storageBlockId, "_")
       /\ (/\ sv.cmd = "onSaveTextDocument"
           /\ sv.doc.fileName \in WorkingCopyFiles(hr))
            => \A k \in CallsOf(sv, "editFile") : sv.calls[k].args[1] # hr.codeBlock.id

\* the original statement of C19: for every block id that holds an
\* underscore, decoding a file of its working copy gives an identity whose
\* storageBlockId holds no underscore, and a save there does not call
\* editFile with the block id.
C19_UnderscoreIds ==
  LET hr == handlers[OpenSlot]
  IN (hr.cmd = "openCodeBlock" /\ hr.directory # NoString)
       => UnderscoreContract(hr, handlers[SaveSlot])

\* C19 (amended): for every block id that holds an underscore and whose
\* directory name path.join left as composed, decoding a file of its
\* working copy gives an identity whose storageBlockId holds no
\* underscore, and a save there does not call editFile with the block id.
C19_UnderscoreIdsAsComposed ==
  LET hr == handlers[OpenSlot]
  IN (hr.cmd = "openCodeBlock" /\ hr.directory # NoString /\ DirectoryAsComposed(hr))
       => UnderscoreContract(hr, handlers[SaveSlot])

\* a save in the working copy of block a_b has called editFile for block a
C19_Witness ==
  LET hr == handlers[OpenSlot]
      sv == handlers[SaveSlot]
  IN /\ hr.cmd = "openCodeBlock"
     /\ hr.directory # NoString
     /\ hr.codeBlock.id = IdUnder
     /\ DirectoryAsComposed(hr)
     /\ sv.cmd = "onSaveTextDocument"
     /\ sv.doc.fileName \in WorkingCopyFiles(hr)
     /\ sv.calls # <<>>
     /\ sv.calls[1].op = "editFile"
     /\ sv.calls[1].args[1] = IdA

=============================================================================
